---- MODULE Spec2Model ----
\* A model of modules/misc/network/ipv4.c: OpenUDP, the set-up of one
\* UDP/IPv4 endpoint (resolve, socket, tune, bind, join or connect,
\* multicast send options, handle publication, MTU).
\*
\* Representation.
\*   - A C string is the sequence of its characters ("10.0.0.5" is
\*     <<"1","0",".","0",".","0",".","5">>), so that inet_addr really parses.
\*   - An in_addr (s_addr, network byte order) is the tuple of its four bytes
\*     in memory order; ntohl turns it into the host-order 32-bit value,
\*     written as its two 16-bit halves <<high, low>>.
\*   - Conditional compilation (#ifdef) is the record "build", chosen once in
\*     Init and never changed: every combination of the flags is a build the
\*     source can produce.
\*   - Every call that leaves OpenUDP (getaddrinfo, socket, setsockopt, bind,
\*     connect, close, config_GetPsz, config_GetInt, var_Get, var_Create) is
\*     appended to "log", a history of the run.
EXTENDS Integers, Sequences, FiniteSets, TLC

\* ------------------------------------------------------------------ bounds

\* explicit/default TTL values range over -1..MaxLowTtl, 16 and
\* 255..255+MaxOverTtl (values that do not fit an unsigned char)
MaxLowTtl == 1
MaxOverTtl == 2

\* ----------------------------------------------------------------- strings

DigitChars == <<"0", "1", "2", "3", "4", "5", "6", "7", "8", "9">>

IsDigit(c) == \E d \in 1..10 : DigitChars[d] = c

DigitVal(c) == (CHOOSE d \in 1..10 : DigitChars[d] = c) - 1

\* the pieces of s between its dots
RECURSIVE SplitDots(_)
SplitDots(s) ==
    IF s = << >> THEN << << >> >>
    ELSE LET rest == SplitDots(Tail(s))
         IN  IF Head(s) = "."
             THEN << << >> >> \o rest
             ELSE << <<Head(s)>> \o Head(rest) >> \o Tail(rest)

RECURSIVE NumVal(_, _)
NumVal(p, base) ==
    IF p = << >> THEN 0
    ELSE NumVal(SubSeq(p, 1, Len(p) - 1), base) * base + DigitVal(p[Len(p)])

\* a leading 0 makes a part octal, as in inet_aton (hexadecimal parts are
\* outside the alphabet of the strings drawn here)
IsOctal(p) == Len(p) > 1 /\ p[1] = "0"

PartOk(p) ==
    /\ Len(p) \in 1..9
    /\ \A i \in 1..Len(p) : IsDigit(p[i])
    /\ IsOctal(p) => \A i \in 1..Len(p) : DigitVal(p[i]) < 8

PartVal(p) == IF IsOctal(p) THEN NumVal(Tail(p), 8) ELSE NumVal(p, 10)

RECURSIVE Pow256(_)
Pow256(k) == IF k = 0 THEN 1 ELSE 256 * Pow256(k - 1)

\* the k low bytes of v, most significant first
BytesOf(v, k) == [i \in 1..k |-> (v \div Pow256(k - i)) % 256]

\* ---------------------------------------------------------------- addresses

INADDR_ANY == <<0, 0, 0, 0>>

INADDR_NONE == <<255, 255, 255, 255>>

\* inet_aton's forms a.b.c.d, a.b.c, a.b and a: the last part fills the
\* bytes the earlier parts leave
AtonParts(s) == SplitDots(s)

AtonOk(s) ==
    LET parts == AtonParts(s)
        n == Len(parts)
    IN  /\ n \in 1..4
        /\ \A i \in 1..n : PartOk(parts[i])
        /\ \A i \in 1..(n - 1) : PartVal(parts[i]) <= 255
        /\ n > 1 => PartVal(parts[n]) < Pow256(5 - n)

AtonBytes(s) ==
    LET parts == AtonParts(s)
        n == Len(parts)
    IN  [i \in 1..(n - 1) |-> PartVal(parts[i])] \o BytesOf(PartVal(parts[n]), 5 - n)

\* inet_addr: the address in network byte order, INADDR_NONE for anything
\* that is not a numeric address (the empty string and host names included)
inet_addr(s) == IF AtonOk(s) THEN AtonBytes(s) ELSE INADDR_NONE

\* network to host order: the 32-bit value as <<high half, low half>>
ntohl(a) == <<a[1] * 256 + a[2], a[3] * 256 + a[4]>>

\* a class D test that only looks at the three top bits (takes 240.0.0.0
\* and above for multicast too)
IN_CLASSD_Wide(h) == h[1] \div 8192 = 7

\* ((a) & 0xf0000000) == 0xe0000000
IN_CLASSD(h) == h[1] \div 4096 = 14

IN_MULTICAST(h) == IN_CLASSD(h)

\* ------------------------------------------------------------ inputs drawn

EMPTY == << >>

\* "0.0.0.0"
STR_WILDCARD == <<"0", ".", "0", ".", "0", ".", "0">>

\* "239.255.12.42"
STR_GROUP == <<"2", "3", "9", ".", "2", "5", "5", ".", "1", "2", ".", "4", "2">>

\* "10.0.0.5"
STR_SOURCE == <<"1", "0", ".", "0", ".", "0", ".", "5">>

\* "stream.example.org", a host name
STR_HOST ==
    <<"s", "t", "r", "e", "a", "m", ".", "e", "x",
      "a", "m", "p", "l", "e", ".", "o", "r", "g">>

\* "224.0.0.0"
STR_FIRST_GROUP == <<"2", "2", "4", ".", "0", ".", "0", ".", "0">>

\* "223.255.255.255"
STR_BELOW_GROUPS == <<"2", "2", "3", ".", "2", "5", "5", ".", "2", "5", "5", ".", "2", "5", "5">>

\* "239.255.255.255"
STR_LAST_GROUP == <<"2", "3", "9", ".", "2", "5", "5", ".", "2", "5", "5", ".", "2", "5", "5">>

\* "240.0.0.0"
STR_ABOVE_GROUPS == <<"2", "4", "0", ".", "0", ".", "0", ".", "0">>

\* "10.0.0.1"
STR_IFACE == <<"1", "0", ".", "0", ".", "0", ".", "1">>

\* "eth0"
STR_BAD_IFACE == <<"e", "t", "h", "0">>

\* "255.255.255.255", the one numeric address inet_addr cannot tell from an
\* error
STR_ALL_ONES ==
    <<"2", "5", "5", ".", "2", "5", "5", ".", "2", "5", "5", ".", "2", "5", "5">>

BindStrings ==
    {EMPTY, STR_WILDCARD, STR_GROUP, STR_HOST, STR_FIRST_GROUP,
     STR_BELOW_GROUPS, STR_LAST_GROUP, STR_ABOVE_GROUPS}

ServerStrings == {EMPTY, STR_SOURCE, STR_GROUP, STR_HOST}

TtlChoices == (-1..MaxLowTtl) \cup {16} \cup (255..(255 + MaxOverTtl))

\* a char * returned by config_GetPsz: NULL or a string
NULL_PSZ == [null |-> TRUE, s |-> EMPTY]

Psz(s) == [null |-> FALSE, s |-> s]

MifChoices ==
    {NULL_PSZ, Psz(EMPTY), Psz(STR_IFACE), Psz(STR_BAD_IFACE), Psz(STR_ALL_ONES)}

\* the "mtu" variable as var_Get may find it: << >> when the object has none
MtuFound == {<< >>, <<1400>>}

\* the value var_Create( ..., VLC_VAR_DOINHERIT ) may give a new "mtu"
MtuInherited == {1500}

\* what the resolver may answer for a host name
HostAddrs(s) == IF s = STR_HOST THEN {<<239, 255, 12, 42>>, <<10, 0, 0, 5>>} ELSE {}

GaiFail == [ok |-> FALSE, addr |-> INADDR_ANY]

\* vlc_getaddrinfo with AI_PASSIVE, AF_INET: an empty node is the wildcard,
\* a numeric node is itself, a host name is whatever the resolver answers;
\* any lookup may fail
vlc_getaddrinfo(node) ==
    {GaiFail} \cup
    {[ok |-> TRUE, addr |-> a] :
        a \in IF node = EMPTY THEN {INADDR_ANY}
              ELSE IF AtonOk(node) THEN {AtonBytes(node)}
              ELSE HostAddrs(node)}

SysResults == {0, -1}

Flags ==
    [WIN32 : BOOLEAN, SO_REUSEPORT : BOOLEAN, SO_RCVBUF : BOOLEAN,
     SYS_BEOS : BOOLEAN, IP_ADD_SOURCE_MEMBERSHIP : BOOLEAN,
     IP_MULTICAST_IF : BOOLEAN]

\* --------------------------------------------------------------------- state

VARIABLES
    build,            \* the #ifdef flags of this build
    psz_bind_addr,    \* p_socket->psz_bind_addr
    psz_server_addr,  \* p_socket->psz_server_addr
    p_handle,         \* p_socket->i_handle
    p_mtu,            \* p_socket->i_mtu
    i_handle,         \* local: the descriptor
    sock,             \* local: struct sockaddr_in sock (its sin_addr)
    i_ttl,            \* local: the selected TTL
    open_fds,         \* the process's open descriptors
    pc,               \* where OpenUDP is
    ret,              \* what OpenUDP returned
    tune_res,         \* what the setsockopts OpenUDP does not act on returned, until bind
    log               \* history: every call made and every value obtained, in order

\* p_socket->i_ttl, the configuration items and the "mtu" variable are read
\* once each; the model draws each value where OpenUDP reads it and records
\* it in the log (entries "p_socket", "config_GetPsz", "config_GetInt",
\* "var_Get"), which no earlier step can tell from a value fixed beforehand.

vars ==
    <<build, psz_bind_addr, psz_server_addr, p_handle, p_mtu, i_handle, sock,
      i_ttl, open_fds, pc, ret, tune_res, log>>

\* one entry of the log: the call, the option or item it names, the value
\* passed (for a lookup: the value obtained; for getaddrinfo: the node and the
\* address BuildAddr copied) and the result
Call(op, name, val, res) == [op |-> op, name |-> name, val |-> val, res |-> res]

Logged(e) == log' = Append(log, e)

\* socket() returns the lowest descriptor not in use
NewFd(fds) ==
    CHOOSE f \in 0..Cardinality(fds) :
        f \notin fds /\ \A g \in 0..(f - 1) : g \in fds

Init ==
    /\ build \in Flags
    /\ psz_bind_addr \in BindStrings
    /\ psz_server_addr \in ServerStrings
    /\ p_handle \in {-1, 7}
    /\ p_mtu = 0
    /\ i_handle = -1
    /\ sock = INADDR_ANY
    /\ i_ttl = 0
    /\ open_fds = {0, 1, 2}
    /\ pc = "entry"
    /\ ret = "none"
    /\ tune_res = << >>
    /\ log = << >>

\* ------------------------------------------------------------------- OpenUDP

\* return VLC_EGENERIC / return 0
Return(r) == pc' = "done" /\ ret' = r

\* Enter without the reset of line 172
Enter_NoReset ==
    /\ pc = "entry"
    /\ pc' = "build_local"
    /\ UNCHANGED <<build, psz_bind_addr, psz_server_addr, p_handle, p_mtu,
                   i_handle, sock, i_ttl, open_fds, ret, tune_res, log>>

\* line 172
Enter ==
    /\ pc = "entry"
    /\ p_handle' = -1
    /\ pc' = "build_local"
    /\ UNCHANGED <<build, psz_bind_addr, psz_server_addr, p_mtu, i_handle, sock,
                   i_ttl, open_fds, ret, log, tune_res>>

\* BuildAddr: -1 when the lookup fails, else 0 with the first address copied
BuildAddr(psz_address, r) ==
    IF r.ok THEN [rc |-> 0, addr |-> r.addr] ELSE [rc |-> -1, addr |-> sock]

\* lines 174-176 with a failed lookup replaced by the wildcard address
BuildLocal_Fallback ==
    /\ pc = "build_local"
    /\ \E r \in vlc_getaddrinfo(psz_bind_addr) :
         LET b == BuildAddr(psz_bind_addr, r)
         IN  /\ Logged(Call("getaddrinfo", "local",
                             [node |-> psz_bind_addr, addr |-> b.addr], b.rc))
             /\ sock' = IF b.rc = -1 THEN INADDR_ANY ELSE b.addr
             /\ pc' = "socket"
    /\ UNCHANGED <<build, psz_bind_addr, psz_server_addr, p_handle, p_mtu,
                   i_handle, i_ttl, open_fds, ret, tune_res>>

\* lines 174-176
BuildLocal ==
    /\ pc = "build_local"
    /\ \E r \in vlc_getaddrinfo(psz_bind_addr) :
         LET b == BuildAddr(psz_bind_addr, r)
         IN  /\ Logged(Call("getaddrinfo", "local",
                             [node |-> psz_bind_addr, addr |-> b.addr], b.rc))
             /\ sock' = b.addr
             /\ IF b.rc = -1
                THEN Return("VLC_EGENERIC")
                ELSE pc' = "socket" /\ ret' = ret
    /\ UNCHANGED <<build, psz_bind_addr, psz_server_addr, p_handle, p_mtu,
                   i_handle, i_ttl, open_fds, tune_res>>

\* lines 178-184
CreateSocket ==
    /\ pc = "socket"
    /\ \E ok \in BOOLEAN :
         LET fd == IF ok THEN NewFd(open_fds) ELSE -1
         IN  /\ i_handle' = fd
             /\ Logged(Call("socket", "SOCK_DGRAM", 0, fd))
             /\ IF fd = -1
                THEN Return("VLC_EGENERIC") /\ open_fds' = open_fds
                ELSE /\ open_fds' = open_fds \cup {fd}
                     /\ pc' = "reuseaddr"
                     /\ ret' = ret
    /\ UNCHANGED <<build, psz_bind_addr, psz_server_addr, p_handle, p_mtu, sock,
                   i_ttl, tune_res>>

\* a tuning setsockopt whose failure is taken as fatal
Tune_Fatal(at, name, val, next) ==
    /\ pc = at
    /\ Logged(Call("setsockopt", name, val, 0))
    /\ \E res \in SysResults :
         /\ tune_res' = Append(tune_res, res)
         /\ pc' = IF res = -1 THEN "error" ELSE next
    /\ UNCHANGED <<build, psz_bind_addr, psz_server_addr, p_handle, p_mtu,
                   i_handle, sock, i_ttl, open_fds, ret>>

\* a setsockopt whose result OpenUDP does not act on (at most a message is
\* printed): whatever it returns, the run goes on at "next". The log keeps
\* the call with a result of 0; what the calls returned is in tune_res, in
\* order, until bind() is called: nothing after that point can depend on it.
Tune(at, name, val, next) ==
    /\ pc = at
    /\ Logged(Call("setsockopt", name, val, 0))
    /\ \E res \in SysResults : tune_res' = Append(tune_res, res)
    /\ pc' = next
    /\ UNCHANGED <<build, psz_bind_addr, psz_server_addr, p_handle, p_mtu,
                   i_handle, sock, i_ttl, open_fds, ret>>

\* a step the build compiles out
Skip(at, next) ==
    /\ pc = at
    /\ pc' = next
    /\ UNCHANGED <<build, psz_bind_addr, psz_server_addr, p_handle, p_mtu,
                   i_handle, sock, i_ttl, open_fds, ret, log, tune_res>>

\* lines 186-189
ReuseAddr == Tune("reuseaddr", "SO_REUSEADDR", 1, "reuseport")

\* lines 190-194
ReusePort ==
    IF build.SO_REUSEPORT
    THEN Tune("reuseport", "SO_REUSEPORT", 1, "rcvbuf")
    ELSE Skip("reuseport", "rcvbuf")

\* 0x80000
BUFFER_SIZE == 524288

\* lines 198-203
RcvBuf ==
    IF build.SO_RCVBUF
    THEN Tune("rcvbuf", "SO_RCVBUF", BUFFER_SIZE, "sndbuf")
    ELSE Skip("rcvbuf", "bind")

\* lines 204-208 (inside #ifdef SO_RCVBUF)
SndBuf == Tune("sndbuf", "SO_SNDBUF", BUFFER_SIZE, "bind")

\* what bind() is given: under Win32 a multicast address is replaced by
\* INADDR_ANY (lines 211-231)
BindAddress ==
    IF build.WIN32 /\ IN_MULTICAST(ntohl(sock)) THEN INADDR_ANY ELSE sock

\* lines 211-237 with the result of bind() ignored
Bind_Unchecked ==
    /\ pc = "bind"
    /\ \E res \in SysResults :
         /\ Logged(Call("bind", "local", BindAddress, res))
         /\ pc' = "broadcast"
    /\ tune_res' = << >>
    /\ UNCHANGED <<build, psz_bind_addr, psz_server_addr, p_handle, p_mtu,
                   i_handle, sock, i_ttl, open_fds, ret>>

\* lines 211-237
Bind ==
    /\ pc = "bind"
    /\ \E res \in SysResults :
         /\ Logged(Call("bind", "local", BindAddress, res))
         /\ pc' = IF res < 0 THEN "error" ELSE "broadcast"
    /\ tune_res' = << >>
    /\ UNCHANGED <<build, psz_bind_addr, psz_server_addr, p_handle, p_mtu,
                   i_handle, sock, i_ttl, open_fds, ret>>

\* !*psz: the string has no first character
IsEmptyStr(psz) == Len(psz) = 0

\* line 241 testing the address that was bound instead of the string
WantsBroadcast_Bound == ~build.SYS_BEOS /\ sock = INADDR_ANY

\* line 241 with the test inverted
WantsBroadcast_Inverted == ~build.SYS_BEOS /\ ~IsEmptyStr(psz_bind_addr)

\* the condition of line 241, compiled only #if !defined( SYS_BEOS )
WantsBroadcast == ~build.SYS_BEOS /\ IsEmptyStr(psz_bind_addr)

\* lines 239-249: a failure is only warned about
Broadcast ==
    /\ pc = "broadcast"
    /\ IF WantsBroadcast
       THEN \E res \in SysResults :
              Logged(Call("setsockopt", "SO_BROADCAST", 1, res))
       ELSE log' = log
    /\ pc' = "deliver"
    /\ UNCHANGED <<build, psz_bind_addr, psz_server_addr, p_handle, p_mtu,
                   i_handle, sock, i_ttl, open_fds, ret, tune_res>>

\* the condition of lines 251-253: the join path is compiled only
\* #ifdef IP_ADD_SOURCE_MEMBERSHIP
TakesJoinPath == build.IP_ADD_SOURCE_MEMBERSHIP /\ IN_MULTICAST(ntohl(sock))

\* lines 267-271 without the tests of line 267
JoinInterface_Unchecked(psz_if_addr) ==
    IF ~psz_if_addr.null THEN inet_addr(psz_if_addr.s) ELSE INADDR_ANY

\* lines 267-271
JoinInterface(psz_if_addr) ==
    IF ~psz_if_addr.null /\ ~IsEmptyStr(psz_if_addr.s)
          /\ inet_addr(psz_if_addr.s) # INADDR_NONE
    THEN inet_addr(psz_if_addr.s)
    ELSE INADDR_ANY

\* lines 261-271: struct ip_mreq_source imr
JoinRequest(psz_if_addr) ==
    [imr_multiaddr |-> sock,
     imr_sourceaddr |-> inet_addr(psz_server_addr),
     imr_interface |-> JoinInterface(psz_if_addr)]

\* lines 253-288
Join ==
    /\ pc = "deliver"
    /\ TakesJoinPath
    /\ \E psz_if_addr \in MifChoices, res \in SysResults :
         /\ log' = log \o
              <<Call("config_GetPsz", "miface-addr", psz_if_addr, 0),
                Call("setsockopt", "IP_ADD_SOURCE_MEMBERSHIP",
                     JoinRequest(psz_if_addr), res)>>
         /\ pc' = IF res = -1 THEN "error" ELSE "publish"
    /\ UNCHANGED <<build, psz_bind_addr, psz_server_addr, p_handle, p_mtu,
                   i_handle, sock, i_ttl, open_fds, ret, tune_res>>

\* lines 292-297
BuildRemote ==
    /\ pc = "deliver"
    /\ ~TakesJoinPath
    /\ \E r \in vlc_getaddrinfo(psz_server_addr) :
         LET b == BuildAddr(psz_server_addr, r)
         IN  /\ Logged(Call("getaddrinfo", "remote",
                             [node |-> psz_server_addr, addr |-> b.addr], b.rc))
             /\ sock' = b.addr
             /\ pc' = IF b.rc = -1 THEN "error" ELSE "connect"
    /\ UNCHANGED <<build, psz_bind_addr, psz_server_addr, p_handle, p_mtu,
                   i_handle, i_ttl, open_fds, ret, tune_res>>

\* the condition of lines 307-308, compiled only #ifdef IP_MULTICAST_IF
SendsMulticast ==
    build.IP_MULTICAST_IF /\ IN_MULTICAST(ntohl(inet_addr(psz_server_addr)))

\* lines 299-308 with a failed connect() tried a second time
Connect_Retry ==
    /\ pc = "connect"
    /\ \E res \in SysResults :
         /\ Logged(Call("connect", "remote", sock, res))
         /\ pc' = IF res = -1
                  THEN (IF \A i \in DOMAIN log : log[i].op # "connect"
                        THEN "connect" ELSE "error")
                  ELSE IF SendsMulticast THEN "read_ttl"
                  ELSE "publish"
    /\ UNCHANGED <<build, psz_bind_addr, psz_server_addr, p_handle, p_mtu,
                   i_handle, sock, i_ttl, open_fds, ret, tune_res>>

\* lines 299-308
Connect ==
    /\ pc = "connect"
    /\ \E res \in SysResults :
         /\ Logged(Call("connect", "remote", sock, res))
         /\ pc' = IF res = -1 THEN "error"
                  ELSE IF SendsMulticast THEN "read_ttl"
                  ELSE "publish"
    /\ UNCHANGED <<build, psz_bind_addr, psz_server_addr, p_handle, p_mtu,
                   i_handle, sock, i_ttl, open_fds, ret, tune_res>>

\* lines 310-311: int i_ttl = p_socket->i_ttl
ReadTtl ==
    /\ pc = "read_ttl"
    /\ \E t \in TtlChoices :
         /\ Logged(Call("p_socket", "i_ttl", t, 0))
         /\ i_ttl' = t
    /\ pc' = "mcast_if"
    /\ UNCHANGED <<build, psz_bind_addr, psz_server_addr, p_handle, p_mtu,
                   i_handle, sock, open_fds, ret, tune_res>>

\* lines 313-327
McastIf ==
    /\ pc = "mcast_if"
    /\ \E psz_mif_addr \in MifChoices :
         LET got == Call("config_GetPsz", "miface-addr", psz_mif_addr, 0)
         IN  IF ~psz_mif_addr.null
             THEN \E res \in SysResults :
                    /\ log' = log \o
                         <<got, Call("setsockopt", "IP_MULTICAST_IF",
                                     inet_addr(psz_mif_addr.s), res)>>
                    /\ pc' = IF res < 0 THEN "error" ELSE "select_ttl"
             ELSE /\ Logged(got)
                  /\ pc' = "select_ttl"
    /\ UNCHANGED <<build, psz_bind_addr, psz_server_addr, p_handle, p_mtu,
                   i_handle, sock, i_ttl, open_fds, ret, tune_res>>

\* lines 329-332 without the test "i_ttl > 0" of line 332
SelectTtl_Unguarded ==
    /\ pc = "select_ttl"
    /\ IF i_ttl <= 0
       THEN \E d \in TtlChoices :
              /\ Logged(Call("config_GetInt", "ttl", d, 0))
              /\ i_ttl' = d
       ELSE UNCHANGED <<log, i_ttl>>
    /\ pc' = "ttl_byte"
    /\ UNCHANGED <<build, psz_bind_addr, psz_server_addr, p_handle, p_mtu,
                   i_handle, sock, open_fds, ret, tune_res>>

\* lines 329-332 with "i_ttl < 0" for "i_ttl <= 0"
SelectTtl_NegativeOnly ==
    /\ pc = "select_ttl"
    /\ IF i_ttl < 0
       THEN \E d \in TtlChoices :
              /\ Logged(Call("config_GetInt", "ttl", d, 0))
              /\ i_ttl' = d
       ELSE UNCHANGED <<log, i_ttl>>
    /\ pc' = IF i_ttl' > 0 THEN "ttl_byte" ELSE "publish"
    /\ UNCHANGED <<build, psz_bind_addr, psz_server_addr, p_handle, p_mtu,
                   i_handle, sock, open_fds, ret, tune_res>>

\* lines 329-332
SelectTtl ==
    /\ pc = "select_ttl"
    /\ IF i_ttl <= 0
       THEN \E d \in TtlChoices :
              /\ Logged(Call("config_GetInt", "ttl", d, 0))
              /\ i_ttl' = d
       ELSE UNCHANGED <<log, i_ttl>>
    /\ pc' = IF i_ttl' > 0 THEN "ttl_byte" ELSE "publish"
    /\ UNCHANGED <<build, psz_bind_addr, psz_server_addr, p_handle, p_mtu,
                   i_handle, sock, open_fds, ret, tune_res>>

\* a conversion that keeps the largest byte for values that do not fit
UnsignedChar_Saturating(x) == IF x > 255 THEN 255 ELSE x

\* (unsigned char) x, for x >= 0
UnsignedChar(x) == x % 256

\* the argument of a setsockopt( IP_MULTICAST_TTL ): its size and its value
TtlArg(size, v) == [size |-> size, v |-> v]

\* lines 334-344 with the failure of the byte form taken as fatal
TtlByte_NoFallback ==
    /\ pc = "ttl_byte"
    /\ \E res \in SysResults :
         /\ Logged(Call("setsockopt", "IP_MULTICAST_TTL",
                        TtlArg(1, UnsignedChar(i_ttl)), res))
         /\ pc' = IF res < 0 THEN "error" ELSE "publish"
    /\ UNCHANGED <<build, psz_bind_addr, psz_server_addr, p_handle, p_mtu,
                   i_handle, sock, i_ttl, open_fds, ret, tune_res>>

\* lines 334-344
TtlByte ==
    /\ pc = "ttl_byte"
    /\ \E res \in SysResults :
         /\ Logged(Call("setsockopt", "IP_MULTICAST_TTL",
                        TtlArg(1, UnsignedChar(i_ttl)), res))
         /\ pc' = IF res < 0 THEN "ttl_int" ELSE "publish"
    /\ UNCHANGED <<build, psz_bind_addr, psz_server_addr, p_handle, p_mtu,
                   i_handle, sock, i_ttl, open_fds, ret, tune_res>>

\* lines 345-351
TtlInt ==
    /\ pc = "ttl_int"
    /\ \E res \in SysResults :
         /\ Logged(Call("setsockopt", "IP_MULTICAST_TTL", TtlArg(4, i_ttl), res))
         /\ pc' = IF res < 0 THEN "error" ELSE "publish"
    /\ UNCHANGED <<build, psz_bind_addr, psz_server_addr, p_handle, p_mtu,
                   i_handle, sock, i_ttl, open_fds, ret, tune_res>>

\* line 358
Publish ==
    /\ pc = "publish"
    /\ p_handle' = i_handle
    /\ pc' = "mtu"
    /\ UNCHANGED <<build, psz_bind_addr, psz_server_addr, p_mtu, i_handle, sock,
                   i_ttl, open_fds, ret, log, tune_res>>

\* lines 360-367 with a missing "mtu" variable taken as an error
Mtu_AbsentIsError ==
    /\ pc = "mtu"
    /\ \E found \in MtuFound :
         IF found # << >>
         THEN /\ Logged(Call("var_Get", "mtu", found[1], 0))
              /\ p_mtu' = found[1]
              /\ Return("VLC_SUCCESS")
         ELSE /\ Logged(Call("var_Get", "mtu", 0, -1))
              /\ p_mtu' = p_mtu
              /\ pc' = "error"
              /\ ret' = ret
    /\ UNCHANGED <<build, psz_bind_addr, psz_server_addr, p_handle, i_handle,
                   sock, i_ttl, open_fds, tune_res>>

\* lines 360-367
Mtu ==
    /\ pc = "mtu"
    /\ \E found \in MtuFound :
         IF found # << >>
         THEN /\ Logged(Call("var_Get", "mtu", found[1], 0))
              /\ p_mtu' = found[1]
         ELSE \E inherited \in MtuInherited :
                /\ log' = log \o
                     <<Call("var_Get", "mtu", 0, -1),
                       Call("var_Create", "mtu", inherited, 0),
                       Call("var_Get", "mtu", inherited, 0)>>
                /\ p_mtu' = inherited
    /\ Return("VLC_SUCCESS")
    /\ UNCHANGED <<build, psz_bind_addr, psz_server_addr, p_handle, i_handle,
                   sock, i_ttl, open_fds, tune_res>>

\* the error exit without the close of line 370
Error_NoClose ==
    /\ pc = "error"
    /\ Return("VLC_EGENERIC")
    /\ UNCHANGED <<build, psz_bind_addr, psz_server_addr, p_handle, p_mtu,
                   i_handle, sock, i_ttl, open_fds, tune_res, log>>

\* lines 369-371
Error ==
    /\ pc = "error"
    /\ Logged(Call("close", "i_handle", i_handle, 0))
    /\ open_fds' = open_fds \ {i_handle}
    /\ Return("VLC_EGENERIC")
    /\ UNCHANGED <<build, psz_bind_addr, psz_server_addr, p_handle, p_mtu,
                   i_handle, sock, i_ttl, tune_res>>

Next ==
    \/ Enter
    \/ BuildLocal
    \/ CreateSocket
    \/ ReuseAddr
    \/ ReusePort
    \/ RcvBuf
    \/ SndBuf
    \/ Bind
    \/ Broadcast
    \/ Join
    \/ BuildRemote
    \/ Connect
    \/ ReadTtl
    \/ McastIf
    \/ SelectTtl
    \/ TtlByte
    \/ TtlInt
    \/ Publish
    \/ Mtu
    \/ Error

Spec == Init /\ [][Next]_vars

\* ------------------------------------------------------- reading the history

\* the places of the log where "op" was called on "name"
Idx(op, name) == {i \in DOMAIN log : log[i].op = op /\ log[i].name = name}

Done == pc = "done"

Succeeded == Done /\ ret = "VLC_SUCCESS"

Failed == Done /\ ret = "VLC_EGENERIC"

Closes == {i \in DOMAIN log : log[i].op = "close"}

\* the descriptors socket() handed out in this run
Created == {log[i].res : i \in {j \in Idx("socket", "SOCK_DGRAM") : log[j].res # -1}}

\* a failed step of one of the kinds that end the run once a socket exists
FatalFailures ==
    {i \in DOMAIN log :
        /\ log[i].res = -1
        /\ \/ log[i].op = "bind"
           \/ log[i].op = "connect"
           \/ log[i].op = "getaddrinfo" /\ log[i].name = "remote"
           \/ /\ log[i].op = "setsockopt"
              /\ log[i].name \in {"IP_ADD_SOURCE_MEMBERSHIP", "IP_MULTICAST_IF"}
           \/ /\ log[i].op = "setsockopt"
              /\ log[i].name = "IP_MULTICAST_TTL"
              /\ log[i].val.size = 4}

\* a failed step before any socket exists
EarlyFailures ==
    {i \in DOMAIN log :
        /\ log[i].res = -1
        /\ \/ log[i].op = "socket"
           \/ log[i].op = "getaddrinfo" /\ log[i].name = "local"}

\* the addresses BuildAddr resolved for the bind ("local") or the server
\* ("remote") address
Resolved(name) ==
    {log[i].val.addr : i \in {j \in Idx("getaddrinfo", name) : log[j].res = 0}}

\* 224.0.0.0 - 239.255.255.255
InGroupRange(a) == a[1] \in 224..239

BindOk == \E i \in Idx("bind", "local") : log[i].res = 0

\* the bind succeeded and the join-or-connect decision has been taken
PastDeliver == BindOk /\ pc \notin {"broadcast", "deliver"}

Joins == Idx("setsockopt", "IP_ADD_SOURCE_MEMBERSHIP")

RemoteLookups == Idx("getaddrinfo", "remote")

Connects == Idx("connect", "remote")

Broadcasts == Idx("setsockopt", "SO_BROADCAST")

\* the bind succeeded and the broadcast step is behind
PastBroadcast == BindOk /\ pc # "broadcast"

\* the step that follows the broadcast step: the join path begins by reading
\* "miface-addr", the connect path by resolving the server address
StartsDelivery(e) ==
    \/ e.op = "config_GetPsz" /\ e.name = "miface-addr"
    \/ e.op = "getaddrinfo" /\ e.name = "remote"

TtlCalls == Idx("setsockopt", "IP_MULTICAST_TTL")

\* the byte-sized and the integer-sized attempts
ByteTtl == {i \in TtlCalls : log[i].val.size = 1}

IntTtl == {i \in TtlCalls : log[i].val.size = 4}

\* the explicit TTL, once OpenUDP has read it, and the default TTL, once
\* OpenUDP has asked the configuration for it
Explicit == {log[i].val : i \in Idx("p_socket", "i_ttl")}

Default == {log[i].val : i \in Idx("config_GetInt", "ttl")}

MifFailed == \E i \in Idx("setsockopt", "IP_MULTICAST_IF") : log[i].res = -1

JoinOk == \E j \in Joins : log[j].res = 0

ConnectOk == \E c \in Connects : log[c].res = 0

\* ------------------------------------------------------------------- claims

\* C1: once socket() succeeded, a run that ends in an error has closed the
\* created descriptor exactly once, as its last call, after one of the fatal
\* failures; a run in progress or a successful run has closed nothing; when
\* OpenUDP has returned, the only descriptor it leaves open is the one it
\* handed to the caller.
C1_NoLeak ==
    /\ Cardinality(Closes) <= 1
    /\ ~Failed => Closes = {}
    /\ FatalFailures # {} => pc \in {"error", "done"} /\ ret # "VLC_SUCCESS"
    /\ Failed /\ Created # {} =>
         /\ FatalFailures # {}
         /\ Closes = {Len(log)}
         /\ Created = {log[Len(log)].val}
         /\ open_fds = {0, 1, 2}
    /\ Failed /\ Created = {} => Closes = {} /\ open_fds = {0, 1, 2}
    /\ Succeeded => Created = {p_handle} /\ open_fds = {0, 1, 2, p_handle}

\* C1 witness: the integer TTL attempt, the last fatal step, failed and the
\* run returned the error with the descriptor closed.
C1_Witness ==
    /\ Failed
    /\ \E i \in FatalFailures : log[i].name = "IP_MULTICAST_TTL"
    /\ Closes # {}
    /\ open_fds = {0, 1, 2}

\* C2: OpenUDP returns success only when no step of a fatal kind failed, and
\* then p_socket->i_handle is the descriptor created in this run and
\* p_socket->i_mtu is the value the last var_Get gave; from line 172 on
\* p_socket->i_handle is -1 until line 358, so every run that returns an
\* error leaves it at -1, whatever it held at entry.
C2_AllOrNothing ==
    /\ Succeeded =>
         /\ FatalFailures = {} /\ EarlyFailures = {}
         /\ Created = {p_handle}
         /\ p_handle \in open_fds
         /\ log[Len(log)].op = "var_Get" /\ log[Len(log)].res = 0
         /\ p_mtu = log[Len(log)].val
    /\ Failed => p_handle = -1
    /\ pc \notin {"entry", "mtu", "done"} => p_handle = -1

\* C2 witness: a run that failed after its socket was created, and returned
\* with the handle at -1.
C2_Witness == Failed /\ Created # {} /\ p_handle = -1

\* C3 (as claimed): when the resolved bind address is in 224.0.0.0 -
\* 239.255.255.255, the run never resolves the server address nor connects,
\* and once the bind has succeeded and the decision is taken a group join for
\* that address has been issued.
C3_Claim ==
    \A a \in Resolved("local") :
        InGroupRange(a) =>
            /\ RemoteLookups = {} /\ Connects = {}
            /\ PastDeliver => \E j \in Joins : log[j].val.imr_multiaddr = a

\* C4: when the resolved bind address is outside 224.0.0.0 - 239.255.255.255
\* no group join is ever issued, and once the bind has succeeded the server
\* address is resolved, and connect() is called on the address it resolved
\* to; a successful run has established exactly one of the two delivery
\* modes, a group join or a connect.
C4_ConnectPath ==
    /\ \A a \in Resolved("local") :
         ~InGroupRange(a) =>
            /\ Joins = {}
            /\ PastDeliver => Cardinality(RemoteLookups) = 1
            /\ PastDeliver /\ pc # "connect" =>
                 \A r \in Resolved("remote") :
                    Cardinality(Connects) = 1 /\ \A c \in Connects : log[c].val = r
    /\ Succeeded => (JoinOk /\ Connects = {}) \/ (ConnectOk /\ Joins = {})

\* C4 witness: the bind address 240.0.0.0, the first above the multicast
\* range, was bound and the run succeeded by connecting to the server.
C4_Witness ==
    /\ Succeeded
    /\ Resolved("local") = {<<240, 0, 0, 0>>}
    /\ ConnectOk
    /\ Joins = {}

Denoted(s) == IF AtonOk(s) THEN {AtonBytes(s)} ELSE HostAddrs(s)

\* C7 (as claimed): a join issued with a server address supplied is
\* restricted to exactly that source address; with no server address
\* supplied, no source-specific join request is made.
C7_Claim ==
    /\ psz_server_addr # EMPTY =>
         \A j \in Joins : log[j].val.imr_sourceaddr \in Denoted(psz_server_addr)
    /\ psz_server_addr = EMPTY => Joins = {}

\* the platform does not support the source-filtered join: the build does
\* not have IP_ADD_SOURCE_MEMBERSHIP, or the kernel rejected the request
JoinUnsupported ==
    \/ ~build.IP_ADD_SOURCE_MEMBERSHIP
    \/ \E j \in Joins : log[j].res = -1

\* C8 (as claimed): with a multicast bind address, a source address supplied
\* and no platform support for the source-filtered join, a run that got as
\* far as the join-or-connect decision ends in an error with the socket
\* closed, never in success.
C8_Claim ==
    (/\ Done
     /\ PastDeliver
     /\ \E a \in Resolved("local") : InGroupRange(a)
     /\ psz_server_addr # EMPTY
     /\ JoinUnsupported)
    => Failed /\ Closes # {}

\* C9: the byte-sized IP_MULTICAST_TTL attempt is made at most once and the
\* integer-sized one at most once; an integer-sized attempt directly follows
\* a byte-sized attempt that failed, and a failed byte-sized attempt is
\* followed by the integer-sized one and by nothing else. A run that fails
\* with a TTL attempt as its last step has failed both; a run whose byte
\* form was rejected and whose integer form was accepted succeeds.
C9_ByteThenInt ==
    /\ Cardinality(ByteTtl) <= 1 /\ Cardinality(IntTtl) <= 1
    /\ \A i \in IntTtl : (i - 1) \in ByteTtl /\ log[i - 1].res = -1
    /\ \A b \in ByteTtl :
         /\ log[b].res = -1 /\ b = Len(log) => pc = "ttl_int"
         /\ log[b].res = -1 /\ b < Len(log) => (b + 1) \in IntTtl
         /\ log[b].res = 0 => IntTtl = {}
    /\ Failed /\ (Len(log) - 1) \in TtlCalls =>
         /\ (Len(log) - 1) \in IntTtl /\ log[Len(log) - 1].res = -1
         /\ (Len(log) - 2) \in ByteTtl /\ log[Len(log) - 2].res = -1
    /\ Done /\ (\E b \in ByteTtl : log[b].res = -1)
            /\ (\E i \in IntTtl : log[i].res = 0) => Succeeded

\* C9 witness: the byte form was rejected, the integer form accepted, and
\* the run succeeded.
C9_Witness ==
    /\ Succeeded
    /\ \E b \in ByteTtl : log[b].res = -1
    /\ \E i \in IntTtl : log[i].res = 0

MifReads == Idx("config_GetPsz", "miface-addr")

MifCalls == Idx("setsockopt", "IP_MULTICAST_IF")

\* connect() succeeded on a remote address in 224.0.0.0 - 239.255.255.255
ConnectedToGroup ==
    \E c \in Connects : log[c].res = 0 /\ InGroupRange(log[c].val)

\* the connect succeeded and the multicast interface step is behind
PastMif == ConnectOk /\ pc \notin {"read_ttl", "mcast_if"}

\* C11 (as claimed), read for the builds that have the option at all: once
\* the socket is connected to a multicast remote address and the interface
\* step is behind, the configuration was asked for
\* the multicast interface address and IP_MULTICAST_IF was issued if and
\* only if it gave one; a failed IP_MULTICAST_IF ends the run in an error
\* with the socket closed and no IP_MULTICAST_TTL attempt.
C11_Claim ==
    /\ build.IP_MULTICAST_IF /\ ConnectedToGroup /\ PastMif =>
         /\ MifReads # {}
         /\ \A r \in MifReads : ~log[r].val.null <=> MifCalls # {}
    /\ MifFailed =>
         /\ pc \in {"error", "done"}
         /\ TtlCalls = {}
         /\ Done => Failed /\ Closes # {}

LocalLookups == Idx("getaddrinfo", "local")

LocalLookupFailed == \E i \in LocalLookups : log[i].res = -1

\* the calls that create, configure, use or release a socket
SocketCalls ==
    {i \in DOMAIN log : log[i].op \in {"socket", "bind", "setsockopt", "connect", "close"}}

\* C12: the bind address is resolved once, as the first call of the run, and
\* every call on a socket comes after that lookup succeeded. When the lookup
\* fails OpenUDP has returned the error at once: the failed lookup is the only
\* entry of the history, no socket call was made, no descriptor was opened,
\* the handle is -1 and the address structure was left as it was (no address
\* stands in for the one that was not resolved).
C12_ResolutionFailure ==
    /\ Cardinality(LocalLookups) <= 1
    /\ LocalLookups \subseteq {1}
    /\ SocketCalls # {} => \E i \in LocalLookups : log[i].res = 0
    /\ LocalLookupFailed =>
         /\ Failed
         /\ Len(log) = 1
         /\ SocketCalls = {}
         /\ Created = {}
         /\ open_fds = {0, 1, 2}
         /\ p_handle = -1
         /\ sock = INADDR_ANY /\ log[1].val.addr = INADDR_ANY

\* C12 witness: the lookup of the host name given as bind address failed and
\* the run returned the error with nothing else done.
C12_Witness ==
    /\ Failed
    /\ psz_bind_addr = STR_HOST
    /\ LocalLookupFailed
    /\ Len(log) = 1

TuningNames == {"SO_REUSEADDR", "SO_REUSEPORT", "SO_RCVBUF", "SO_SNDBUF"}

\* the tuning calls made
TuningCalls ==
    {i \in DOMAIN log : log[i].op = "setsockopt" /\ log[i].name \in TuningNames}

\* the tuning options of this build, in the order OpenUDP sets them
TuningOptions ==
    <<"SO_REUSEADDR">>
    \o (IF build.SO_REUSEPORT THEN <<"SO_REUSEPORT">> ELSE << >>)
    \o (IF build.SO_RCVBUF THEN <<"SO_RCVBUF", "SO_SNDBUF">> ELSE << >>)

\* socket() succeeded and the tuning steps are behind
PastTuning ==
    Created # {} /\ pc \notin {"reuseaddr", "reuseport", "rcvbuf", "sndbuf"}

\* C13 (as claimed): once bind() has been called, address reuse, the receive
\* buffer size and the send buffer size have each been attempted exactly
\* once, and port reuse exactly once where the build has it.
C13_Claim ==
    Idx("bind", "local") # {} =>
        /\ \A n \in {"SO_REUSEADDR", "SO_RCVBUF", "SO_SNDBUF"} :
             Cardinality(Idx("setsockopt", n)) = 1
        /\ build.SO_REUSEPORT => Cardinality(Idx("setsockopt", "SO_REUSEPORT")) = 1

\* C13 (amended): the tuning calls are the entries of the history that
\* directly follow the successful socket(): the options of this build
\* (SO_REUSEADDR; SO_REUSEPORT where defined; SO_RCVBUF and SO_SNDBUF where
\* SO_RCVBUF is defined), in that order, each once, one attempt made for
\* every result recorded whatever the earlier results were; when the tuning
\* steps are behind all of them have been attempted and the next call is
\* bind(). While any of them has failed the run has neither returned nor
\* reached the error exit nor closed the socket.
C13_Tuning ==
    LET n == Cardinality(TuningCalls)
    IN  /\ n <= Len(TuningOptions)
        /\ TuningCalls = 3..(2 + n)
        /\ \A k \in 1..n : log[2 + k].name = TuningOptions[k]
        /\ TuningCalls # {} => log[2].op = "socket" /\ log[2].res # -1
        /\ pc \in {"reuseaddr", "reuseport", "rcvbuf", "sndbuf", "bind"} =>
             /\ Len(tune_res) = n
             /\ Len(log) = 2 + n
        /\ PastTuning => n = Len(TuningOptions)
        /\ PastTuning /\ pc # "bind" =>
             /\ Len(log) >= 3 + n
             /\ log[3 + n].op = "bind"
             /\ Idx("bind", "local") = {3 + n}
        /\ (\E k \in DOMAIN tune_res : tune_res[k] = -1) =>
             /\ pc \in {"reuseport", "rcvbuf", "sndbuf", "bind"}
             /\ ret = "none"
             /\ Closes = {}

\* C13 witness: all four tuning attempts were made and every one of them
\* failed, and the run is about to call bind().
C13_Witness ==
    /\ pc = "bind"
    /\ tune_res = <<-1, -1, -1, -1>>
    /\ Cardinality(TuningCalls) = 4
    /\ ret = "none"

\* the calls of OpenUDP on the network: lookups and socket calls
NetworkCalls == {i \in DOMAIN log : log[i].op = "getaddrinfo"} \cup SocketCalls

\* C14: no call on the network is made twice with the same purpose, except
\* IP_MULTICAST_TTL, whose second attempt is the integer-sized one directly
\* after the byte-sized one failed; so socket(), bind(), the group join, the
\* lookup of the server address, connect() and IP_MULTICAST_IF are each made
\* at most once. A failed step of a fatal kind is the last call of the run
\* but for the close() of the error exit, so at most one fails in a run.
C14_NoRetry ==
    /\ \A j \in NetworkCalls :
         \A i \in 1..(j - 1) :
            (log[i].op = log[j].op /\ log[i].name = log[j].name) =>
               /\ log[i].op = "setsockopt" /\ log[i].name = "IP_MULTICAST_TTL"
               /\ j = i + 1
               /\ log[i].val.size = 1 /\ log[i].res = -1
               /\ log[j].val.size = 4
    /\ Cardinality(Connects) <= 1 /\ Cardinality(MifCalls) <= 1
    /\ \A i \in EarlyFailures : i = Len(log) /\ Failed
    /\ \A i \in FatalFailures :
         \/ i = Len(log) /\ pc = "error"
         \/ i = Len(log) - 1 /\ log[Len(log)].op = "close" /\ Failed

\* C14 witness: connect() failed, was not tried again and the run returned
\* the error after closing the socket.
C14_Witness ==
    /\ Failed
    /\ Cardinality(Connects) = 1
    /\ \E c \in Connects : log[c].res = -1 /\ c = Len(log) - 1
    /\ log[Len(log)].op = "close"

\* what the configuration gave for "miface-addr" right before the join j
JoinConfig(j) == log[j - 1].val

\* C15 (as claimed): every join is issued right after the configuration was
\* asked for the multicast interface address, on that address when it is a
\* non-empty string that parses as an IPv4 address and on INADDR_ANY in
\* every other case.
C15_Claim ==
    \A j \in Joins :
        /\ (j - 1) \in MifReads
        /\ log[j].val.imr_interface =
             IF ~JoinConfig(j).null /\ JoinConfig(j).s # EMPTY
                   /\ AtonOk(JoinConfig(j).s)
             THEN AtonBytes(JoinConfig(j).s)
             ELSE INADDR_ANY

\* C15 (amended): every join is issued right after the configuration was
\* asked for the multicast interface address, on that address when it is a
\* non-empty string that parses as an IPv4 address other than
\* 255.255.255.255, and on INADDR_ANY in every other case (no value, an empty
\* value, a value that does not parse, 255.255.255.255). Whatever the
\* configuration gave, the join is attempted: on the join path the read of
\* the configuration is followed by the join and by nothing else, and a run
\* on the join path fails after the bind only when the join itself fails.
C15_JoinInterface ==
    /\ \A j \in Joins :
         /\ (j - 1) \in MifReads
         /\ log[j].val.imr_interface =
              IF ~JoinConfig(j).null /\ JoinConfig(j).s # EMPTY
                    /\ AtonOk(JoinConfig(j).s)
                    /\ AtonBytes(JoinConfig(j).s) # <<255, 255, 255, 255>>
              THEN AtonBytes(JoinConfig(j).s)
              ELSE INADDR_ANY
         /\ Done /\ log[j].res = 0 => Succeeded
    /\ \A r \in MifReads :
         RemoteLookups = {} => r < Len(log) /\ (r + 1) \in Joins

\* C15 witness: the configuration gave "eth0", the join was made on
\* INADDR_ANY, was accepted, and the run succeeded.
C15_Witness ==
    /\ Succeeded
    /\ \E j \in Joins :
         /\ JoinConfig(j) = Psz(STR_BAD_IFACE)
         /\ log[j].val.imr_interface = INADDR_ANY
         /\ log[j].res = 0

\* the place of a call in the order of the steps; 0 for the reads of
\* p_socket and of the configuration, which are not steps of their own
StepRank(e) ==
    IF e.op = "getaddrinfo" /\ e.name = "local" THEN 1
    ELSE IF e.op = "socket" THEN 2
    ELSE IF e.op = "setsockopt" /\ e.name \in TuningNames THEN 3
    ELSE IF e.op = "bind" THEN 4
    ELSE IF e.op = "setsockopt" /\ e.name = "SO_BROADCAST" THEN 5
    ELSE IF e.op = "setsockopt" /\ e.name = "IP_ADD_SOURCE_MEMBERSHIP" THEN 6
    ELSE IF e.op = "getaddrinfo" /\ e.name = "remote" THEN 6
    ELSE IF e.op = "connect" THEN 7
    ELSE IF e.op = "setsockopt" /\ e.name = "IP_MULTICAST_IF" THEN 8
    ELSE IF e.op = "setsockopt" /\ e.name = "IP_MULTICAST_TTL" THEN 9
    ELSE IF e.op \in {"var_Get", "var_Create"} THEN 10
    ELSE IF e.op = "close" THEN 11
    ELSE 0

\* the steps that several calls make up: tuning, the TTL and the MTU
ManyCalls == {3, 9, 10}

MtuCalls == {i \in DOMAIN log : log[i].op \in {"var_Get", "var_Create"}}

\* the handle is in p_socket->i_handle (line 358 is behind)
Published == pc \in {"mtu", "done"} /\ p_handle # -1

\* from entry i on, with "last" the step of the call before and "bound" true
\* once a bind() has succeeded: every call belongs to a later step than the
\* one before it, or to the same step when that step is made of several
\* calls; the calls of the steps after bind() are made on a bound socket; the
\* "mtu" variable is touched only once the handle is published
RECURSIVE InOrder(_, _, _)
InOrder(i, last, bound) ==
    IF i > Len(log) THEN TRUE
    ELSE LET r == StepRank(log[i])
         IN  IF r = 0 THEN InOrder(i + 1, last, bound)
             ELSE /\ last < r \/ (last = r /\ r \in ManyCalls)
                  /\ r \in 5..10 => bound
                  /\ r = 10 => Published
                  /\ InOrder(i + 1, r, bound \/ (r = 4 /\ log[i].res = 0))

\* C16: the calls of a run are made in the order of the steps: the lookup of
\* the bind address, socket(), the tuning options, bind(), SO_BROADCAST, then
\* the join or the lookup of the server address and connect(), then
\* IP_MULTICAST_IF, then IP_MULTICAST_TTL, then the "mtu" variable, with
\* close() only last. Every call after bind() (SO_BROADCAST, the join, the
\* lookup of the server address, connect(), the multicast options, the MTU)
\* comes after a bind() that succeeded, and IP_MULTICAST_TTL only after an
\* IP_MULTICAST_IF that did not fail. The handle is published only when no
\* fatal step failed and the join or the connect succeeded, after every call
\* on the socket, and the "mtu" variable is touched only once it is
\* published.
C16_StepOrder ==
    /\ InOrder(1, 0, FALSE)
    /\ TtlCalls # {} => ~MifFailed
    /\ Published =>
         /\ FatalFailures = {} /\ EarlyFailures = {}
         /\ BindOk
         /\ JoinOk \/ ConnectOk
         /\ Closes = {}
         /\ p_handle \in Created
         /\ \A i \in SocketCalls : \A m \in MtuCalls : i < m

\* C16 witness: a successful run that made every step of the connect path:
\* the four tuning options, bind(), SO_BROADCAST, connect(), IP_MULTICAST_IF,
\* both IP_MULTICAST_TTL attempts and the MTU.
C16_Witness ==
    /\ Succeeded
    /\ Cardinality(TuningCalls) = 4
    /\ Broadcasts # {}
    /\ ConnectOk
    /\ MifCalls # {}
    /\ IntTtl # {}
    /\ MtuCalls # {}

\* the send-side multicast block (lines 309-354) has been entered
InSendBlock == pc = "read_ttl" \/ Explicit # {}

\* C17 (as claimed), read for the builds that have the options at all: once
\* connect() has succeeded, the send-side multicast block is entered when the
\* address connected to is in 224.0.0.0 - 239.255.255.255, whether the
\* server address was given as a number or as a host name, and no multicast
\* option is read or set when it is not.
C17_Claim ==
    build.IP_MULTICAST_IF /\ ConnectOk =>
        /\ ConnectedToGroup => InSendBlock
        /\ ~ConnectedToGroup =>
             ~InSendBlock /\ MifCalls = {} /\ TtlCalls = {}

MtuGets == Idx("var_Get", "mtu")

MtuCreates == Idx("var_Create", "mtu")

\* C18: the "mtu" variable is touched only by a run that succeeds, as its
\* last step, and p_socket->i_mtu is left alone by every other run. When the
\* first var_Get finds the variable, it is the only call made on the variable
\* (nothing is created) and p_socket->i_mtu is the value it gave; when it does
\* not, the variable is created once, read once more, and p_socket->i_mtu is
\* the value that second var_Get gave.
C18_Mtu ==
    /\ MtuCalls # {} => Succeeded /\ Closes = {} /\ p_handle \in Created
    /\ ~Succeeded => p_mtu = 0
    /\ Succeeded =>
         LET last == Len(log)
         IN  /\ last \in MtuGets
             /\ log[last].res = 0
             /\ p_mtu = log[last].val
             /\ IF MtuCreates = {}
                THEN MtuCalls = {last}
                ELSE /\ MtuGets = {last - 2, last}
                     /\ MtuCreates = {last - 1}
                     /\ log[last - 2].res = -1

\* C18 witness: the variable was missing, was created with 1500 and read
\* back, and the run succeeded with that MTU.
C18_Witness ==
    /\ Succeeded
    /\ MtuCreates # {}
    /\ p_mtu = 1500
    /\ log[Len(log)] = Call("var_Get", "mtu", 1500, 0)

\* the explicit TTL was read and is not positive, the default TTL was asked
\* for and is not positive either
NoPositiveTtl ==
    /\ Explicit # {} /\ \A e \in Explicit : e <= 0
    /\ Default # {} /\ \A d \in Default : d <= 0

\* C19 (as claimed): in the send-side multicast block, when neither the
\* explicit nor the default TTL is positive no IP_MULTICAST_TTL attempt is
\* made and the run succeeds unless IP_MULTICAST_IF failed; and no
\* IP_MULTICAST_TTL attempt, in either form, passes a value that is not
\* positive.
C19_Claim ==
    /\ NoPositiveTtl =>
         /\ TtlCalls = {}
         /\ Done /\ ~MifFailed => Succeeded
    /\ \A i \in TtlCalls : log[i].val.v > 0

\* C19 (amended): in the send-side multicast block, when neither the
\* explicit nor the default TTL is positive no IP_MULTICAST_TTL attempt is
\* made and the run succeeds unless IP_MULTICAST_IF failed. An attempt is made
\* only with a positive selected TTL: the integer-sized form passes a positive
\* value, and the byte-sized form passes a value from 0 to 255 that is 0 only
\* when the selected TTL is a positive multiple of 256.
C19_NoTtlUnlessPositive ==
    /\ NoPositiveTtl =>
         /\ TtlCalls = {}
         /\ Done /\ ~MifFailed => Succeeded
    /\ TtlCalls # {} => i_ttl > 0
    /\ \A i \in IntTtl : log[i].val.v > 0
    /\ \A b \in ByteTtl :
         /\ log[b].val.v \in 0..255
         /\ log[b].val.v = 0 => i_ttl > 0 /\ i_ttl % 256 = 0

\* C19 witness: explicit TTL 0 and default TTL -1, the configured interface
\* was set, no IP_MULTICAST_TTL attempt was made and the run succeeded.
C19_Witness ==
    /\ Succeeded
    /\ Explicit = {0}
    /\ Default = {-1}
    /\ \E m \in MifCalls : log[m].res = 0
    /\ TtlCalls = {}

\* C20: with i_ttl the selected TTL, the byte-sized attempt passes i_ttl
\* modulo 256, a value from 0 to 255 that is i_ttl itself exactly when i_ttl
\* is from 1 to 255 and is 0 exactly when i_ttl is a multiple of 256; the
\* integer-sized attempt passes i_ttl as it is.
C20_ByteConversion ==
    /\ \A b \in ByteTtl :
         /\ log[b].val.v \in 0..255
         /\ log[b].val.v = i_ttl % 256
         /\ log[b].val.v = i_ttl <=> i_ttl \in 1..255
         /\ log[b].val.v = 0 <=> i_ttl % 256 = 0
    /\ \A i \in IntTtl : log[i].val.v = i_ttl /\ i_ttl > 0

\* C20 witness: the selected TTL is 256: the byte-sized attempt passed 0 and
\* failed, and the integer-sized attempt passed 256.
C20_Witness ==
    /\ i_ttl = 256
    /\ \E b \in ByteTtl : log[b].val = TtlArg(1, 0) /\ log[b].res = -1
    /\ \E i \in IntTtl : log[i].val = TtlArg(4, 256)

====
